---- MODULE Spec2Model ----
(***************************************************************************)
(* Eleven11-Monitor (src/main.go): a stock monitor that polls one product  *)
(* page through a round-robin proxy pool and posts a Discord notification  *)
(* on the out-of-stock -> in-stock transition.                             *)
(*                                                                         *)
(* Text (proxy lines, meta content values) is modelled as sequences of     *)
(* one-character strings so that trimming, splitting, formatting and       *)
(* lowercasing are computed as the code computes them.                     *)
(***************************************************************************)
EXTENDS Integers, Sequences, FiniteSets, TLC

VARIABLES
    pc,           \* position of main(): which statement runs next
    config,       \* Config{WebhookURL, UserID} (main.go:110)
    proxyFile,    \* proxies.txt as the process finds it: [status, lines]
    proxyURLs,    \* result of readProxiesFromFile (main.go:121)
    rpIndex,      \* the round-robin switcher's counter (main.go:130)
    lastState,    \* main.go:147, TRUE means out of stock
    firstCheck,   \* main.go:148
    resultChan,   \* buffered channel of capacity 1 (main.go:145)
    elems,        \* og:availability elements of the fetched page not yet handled
    call,         \* position inside c.Visit while main() is in it
    sendVal,      \* value the running callback is about to send on resultChan
    url,          \* the limit=<unix> value baked into url (main.go:183)
    now,          \* wall clock, seconds
    tickerNext,   \* time of the ticker's next fire; -1 before it is created
    tickerC,      \* number of ticks buffered in ticker.C (capacity 1)
    fetches,      \* history: one record per c.Visit call
    outcomes,     \* history: outcome of every finished tick
    tickNotify,   \* history: the notification attempts of this tick
    tickSeen,     \* history: what the callback classified in this tick
    startupDoneAt \* history: when the startup check's result was received

vars == << pc, config, proxyFile, proxyURLs, rpIndex, lastState, firstCheck,
           resultChan, elems, call, sendVal, url, now, tickerNext, tickerC,
           fetches, outcomes, tickNotify, tickSeen, startupDoneAt >>

(***************************************************************************)
(* Bounds of the model.                                                    *)
(***************************************************************************)
MaxTime == 90        \* the clock stops advancing here
Quantum == 15        \* the clock advances in steps of this many seconds
MaxElems == 2        \* og:availability elements on one page
MaxLines == 3        \* lines of a proxy file in the pool-construction runs

(***************************************************************************)
(* Program constants.                                                      *)
(***************************************************************************)
Period == 30         \* time.NewTicker(30 * time.Second)
ChanCap == 1         \* make(chan bool, 1)
FieldCount == 4      \* len(parts) != 4
StatusNoContent == 204

(***************************************************************************)
(* Text helpers.                                                           *)
(***************************************************************************)
Space == {" ", "\t"}

RECURSIVE TrimLeft(_)
TrimLeft(s) ==
    IF s # << >> /\ Head(s) \in Space THEN TrimLeft(Tail(s)) ELSE s

RECURSIVE TrimRight(_)
TrimRight(s) ==
    IF s # << >> /\ s[Len(s)] \in Space
    THEN TrimRight(SubSeq(s, 1, Len(s) - 1)) ELSE s

\* strings.TrimSpace
TrimSpace(s) == TrimRight(TrimLeft(s))

\* strings.Split(s, sep) for a one-character sep: Split("", ":") is [""].
RECURSIVE Split(_, _)
Split(s, sep) ==
    IF s = << >> THEN << << >> >>
    ELSE IF Head(s) = sep THEN << << >> >> \o Split(Tail(s), sep)
    ELSE LET r == Split(Tail(s), sep)
         IN  << << Head(s) >> \o r[1] >> \o Tail(r)

\* variant: the arguments in the order of the input line
SprintfProxySwapped(user, pass, ip, port) ==
    << "h", "t", "t", "p", ":", "/", "/" >> \o ip \o << ":" >> \o port
        \o << "@" >> \o user \o << ":" >> \o pass

\* fmt.Sprintf("http://%s:%s@%s:%s", user, pass, ip, port)
SprintfProxy(user, pass, ip, port) ==
    << "h", "t", "t", "p", ":", "/", "/" >> \o user \o << ":" >> \o pass
        \o << "@" >> \o ip \o << ":" >> \o port

\* variant: a line with an empty field is rejected as well
formatProxyStrict(proxyStr) ==
    LET s == TrimSpace(proxyStr)
    IN  IF s = << >> THEN << >>
        ELSE LET parts == Split(s, ":")
             IN  IF Len(parts) # FieldCount \/ \E i \in 1..Len(parts) : parts[i] = << >>
                 THEN << >>
                 ELSE SprintfProxy(parts[3], parts[4], parts[1], parts[2])

\* formatProxy (main.go:29-48); << >> is the empty string
formatProxy(proxyStr) ==
    LET s == TrimSpace(proxyStr)
    IN  IF s = << >> THEN << >>
        ELSE LET parts == Split(s, ":")
             IN  IF Len(parts) # FieldCount THEN << >>
                 ELSE SprintfProxy(parts[3], parts[4], parts[1], parts[2])

(***************************************************************************)
(* Proxy pool construction.                                                *)
(***************************************************************************)
\* variant: a proxy already in the pool is not added again
AppendProxyDedup(proxies, line) ==
    LET proxy == formatProxy(line)
    IN  IF proxy # << >> /\ \A i \in 1..Len(proxies) : proxies[i] # proxy
        THEN Append(proxies, proxy) ELSE proxies

\* main.go:60-63, one iteration of the scan loop
AppendProxy(proxies, line) ==
    LET proxy == formatProxy(line)
    IN  IF proxy # << >> THEN Append(proxies, proxy) ELSE proxies

\* main.go:57-64, the scan loop over the lines of the file
RECURSIVE ScanLines(_, _)
ScanLines(proxies, lines) ==
    IF lines = << >> THEN proxies
    ELSE ScanLines(AppendProxy(proxies, Head(lines)), Tail(lines))

\* main.go:70, the check that makes an empty pool an error
PoolEmpty(proxies) == Len(proxies) = 0

\* readProxiesFromFile (main.go:50-75): the pair (proxies, err); a nil slice
\* is << >> and a nil error is "nil".
readProxiesFromFile(file) ==
    IF file.status = "missing"
    THEN [proxies |-> << >>, err |-> "error opening proxy file"]
    ELSE LET proxies == ScanLines(<< >>, file.lines)
         IN  IF file.status = "readerr"
             THEN [proxies |-> << >>, err |-> "error reading proxy file"]
             ELSE IF PoolEmpty(proxies)
             THEN [proxies |-> << >>, err |-> "no valid proxies found in file"]
             ELSE [proxies |-> proxies, err |-> "nil"]

(***************************************************************************)
(* Inputs.                                                                 *)
(***************************************************************************)
Str_abcd == << "a", ":", "b", ":", "c", ":", "d" >>
Str_padded == << " ", "e", ":", "b", ":", "c", ":", "d", " " >>
Str_abc == << "a", ":", "b", ":", "c" >>
Str_abcde == << "a", ":", "b", ":", "c", ":", "d", ":", "e" >>
Str_emptyField == << "a", ":", ":", "c", ":", "d" >>
Str_colons == << ":", ":", ":" >>
Str_blank == << " ", " " >>

\* raw lines a proxy file may hold
Lines == { Str_abcd, Str_padded, Str_abc, Str_abcde, Str_emptyField,
           Str_colons, Str_blank, << >> }

RECURSIVE SeqsUpTo(_, _)
SeqsUpTo(S, n) ==
    IF n = 0 THEN { << >> }
    ELSE LET shorter == SeqsUpTo(S, n - 1)
         IN  shorter \cup { Append(q, x) : q \in { r \in shorter : Len(r) = n - 1 }, x \in S }

\* every proxy file of at most MaxLines lines, readable or not
AllProxyFiles ==
    [status : {"ok"}, lines : SeqsUpTo(Lines, MaxLines)]
        \cup [status : {"missing", "readerr"}, lines : { << Str_abcd >> }]

\* the proxy files of the polling runs
ProxyFiles ==
    { [status |-> "ok", lines |-> << Str_abcd, Str_abc, Str_padded >>],
      [status |-> "ok", lines |-> << Str_abc, << >> >>],
      [status |-> "ok", lines |-> << >>],
      [status |-> "missing", lines |-> << Str_abcd >>],
      [status |-> "readerr", lines |-> << Str_abcd >>] }

WebhookValues == {"", "https://discord.example/hook"}
UserValues == {"", "1234"}

Str_oos == << "o", "u", "t", " ", "o", "f", " ", "s", "t", "o", "c", "k" >>
Str_OoS == << "O", "u", "t", " ", "O", "f", " ", "S", "t", "o", "c", "k" >>
Str_instock == << "i", "n", " ", "s", "t", "o", "c", "k" >>

\* content attribute values of an og:availability element; << >> is also
\* what e.Attr returns when the attribute is absent
Contents == { Str_oos, Str_OoS, Str_instock, << >> }

\* the og:availability elements of a fetched page, in document order
Pages == SeqsUpTo(Contents, MaxElems)

\* what http.Post returns: a transport error, or a response with a status
PostResults ==
    { [transportErr |-> TRUE, status |-> 0] }
        \cup [transportErr : {FALSE}, status : {200, StatusNoContent, 500}]

(***************************************************************************)
(* Pure parts of the callbacks.                                            *)
(***************************************************************************)
\* strings.ToLower on the letters the inputs use
ToLowerChar(c) ==
    CASE c = "O" -> "o"
      [] c = "S" -> "s"
      [] c = "I" -> "i"
      [] OTHER -> c

ToLower(s) == [i \in 1..Len(s) |-> ToLowerChar(s[i])]

\* variant: the comparison without strings.ToLower
IsOutOfStockExact(availability) == availability = Str_oos

\* main.go:156
IsOutOfStock(availability) == ToLower(availability) = Str_oos

\* variant: the first-check flag is not consulted
ShouldNotifyNoFirst(last, first) == last

\* variant: the previous state is not consulted
ShouldNotifyAlways(last, first) == ~first

\* main.go:164
ShouldNotify(last, first) == last /\ ~first

\* variant: every 2xx status counts as success
sendDiscordNotificationAny2xx(post) ==
    IF post.transportErr THEN "error sending Discord notification"
    ELSE IF post.status < 200 \/ post.status >= 300 THEN "unexpected status code"
    ELSE "nil"

\* sendDiscordNotification (main.go:77-98): the error it returns
sendDiscordNotification(post) ==
    IF post.transportErr THEN "error sending Discord notification"
    ELSE IF post.status # StatusNoContent THEN "unexpected status code"
    ELSE "nil"

\* variant: && in place of ||
ConfigBlankBoth(cfg) == cfg.WebhookURL = "" /\ cfg.UserID = ""

\* main.go:115
ConfigBlank(cfg) == cfg.WebhookURL = "" \/ cfg.UserID = ""

\* the round-robin switcher's choice for its index-th call (main.go:130, 142)
GetProxy(pool, index) == pool[(index % Len(pool)) + 1]

(***************************************************************************)
(* The process.                                                            *)
(***************************************************************************)
TypeOK ==
    /\ pc \in {"loadenv", "config", "readproxies", "switcher", "setup",
               "first_visit", "first_recv", "loop_wait", "loop_visit",
               "loop_recv", "exited"}
    /\ call \in {"none", "fetching", "html", "send"}
    /\ lastState \in BOOLEAN /\ firstCheck \in BOOLEAN /\ sendVal \in BOOLEAN
    /\ Len(resultChan) <= ChanCap
    /\ tickerC \in 0..1
    /\ now \in 0..(MaxTime + Quantum)

InitCommon ==
    /\ pc = "loadenv"
    /\ config = [WebhookURL |-> "", UserID |-> ""]
    /\ proxyURLs = << >>
    /\ rpIndex = 0
    /\ lastState = TRUE
    /\ firstCheck = TRUE
    /\ resultChan = << >>
    /\ elems = << >>
    /\ call = "none"
    /\ sendVal = FALSE
    /\ url = -1
    /\ now = 0
    /\ tickerNext = -1
    /\ tickerC = 0
    /\ fetches = << >>
    /\ outcomes = << >>
    /\ tickNotify = << >>
    /\ tickSeen = << >>
    /\ startupDoneAt = -1

Init == InitCommon /\ proxyFile \in ProxyFiles

\* main.go:102-107: outside production a .env file that fails to load ends
\* the process
LoadEnv ==
    /\ pc = "loadenv"
    /\ \E production \in BOOLEAN, loaded \in BOOLEAN :
          pc' = IF ~production /\ ~loaded THEN "exited" ELSE "config"
    /\ UNCHANGED << config, proxyFile, proxyURLs, rpIndex, lastState,
                    firstCheck, resultChan, elems, call, sendVal, url, now,
                    tickerNext, tickerC, fetches, outcomes, tickNotify,
                    tickSeen, startupDoneAt >>

\* main.go:110-118
LoadConfig ==
    /\ pc = "config"
    /\ \E w \in WebhookValues, u \in UserValues :
          /\ config' = [WebhookURL |-> w, UserID |-> u]
          /\ pc' = IF ConfigBlank(config') THEN "exited" ELSE "readproxies"
    /\ UNCHANGED << proxyFile, proxyURLs, rpIndex, lastState, firstCheck,
                    resultChan, elems, call, sendVal, url, now, tickerNext,
                    tickerC, fetches, outcomes, tickNotify,
                    tickSeen, startupDoneAt >>

\* main.go:121-127
ReadProxies ==
    /\ pc = "readproxies"
    /\ LET r == readProxiesFromFile(proxyFile)
       IN  /\ proxyURLs' = r.proxies
           /\ pc' = IF r.err # "nil" THEN "exited" ELSE "switcher"
    /\ UNCHANGED << config, proxyFile, rpIndex, lastState, firstCheck,
                    resultChan, elems, call, sendVal, url, now, tickerNext,
                    tickerC, fetches, outcomes, tickNotify,
                    tickSeen, startupDoneAt >>

\* main.go:130-134: the switcher parses every proxy URL and may refuse one
CreateSwitcher ==
    /\ pc = "switcher"
    /\ \E parsed \in BOOLEAN :
          pc' = IF parsed /\ Len(proxyURLs) > 0 THEN "setup" ELSE "exited"
    /\ rpIndex' = 0
    /\ UNCHANGED << config, proxyFile, proxyURLs, lastState, firstCheck,
                    resultChan, elems, call, sendVal, url, now, tickerNext,
                    tickerC, fetches, outcomes, tickNotify,
                    tickSeen, startupDoneAt >>

\* variant: the ticker's first tick is due at once
SetupTickerImmediate ==
    /\ pc = "setup"
    /\ resultChan' = << >>
    /\ lastState' = TRUE
    /\ firstCheck' = TRUE
    /\ url' = now
    /\ tickerNext' = now
    /\ tickerC' = 0
    /\ pc' = "first_visit"
    /\ UNCHANGED << config, proxyFile, proxyURLs, rpIndex, elems, call,
                    sendVal, now, fetches, outcomes, tickNotify, tickSeen,
                    startupDoneAt >>

\* main.go:137-186: collector, channel, state, callbacks, url and ticker
Setup ==
    /\ pc = "setup"
    /\ resultChan' = << >>
    /\ lastState' = TRUE
    /\ firstCheck' = TRUE
    /\ url' = now
    /\ tickerNext' = now + Period
    /\ tickerC' = 0
    /\ pc' = "first_visit"
    /\ UNCHANGED << config, proxyFile, proxyURLs, rpIndex, elems, call,
                    sendVal, now, fetches, outcomes, tickNotify,
                    tickSeen, startupDoneAt >>

InVisit == pc \in {"first_visit", "loop_visit"}

\* the limit value the request carries (main.go:189, 201: c.Visit(url))
RequestLimit == url

\* c.Visit(url) is entered (main.go:189, 201): the request is built and the
\* transport asks the switcher for its proxy
VisitStart ==
    /\ InVisit /\ call = "none"
    /\ fetches' = Append(fetches, [proxy |-> GetProxy(proxyURLs, rpIndex),
                                   limit |-> RequestLimit, at |-> now,
                                   lastState |-> lastState,
                                   firstCheck |-> firstCheck])
    /\ rpIndex' = rpIndex + 1
    /\ tickNotify' = << >>
    /\ tickSeen' = << >>
    /\ call' = "fetching"
    /\ UNCHANGED << pc, config, proxyFile, proxyURLs, lastState, firstCheck,
                    resultChan, elems, sendVal, url, now, tickerNext, tickerC,
                    outcomes,
                    startupDoneAt >>

\* the finished tick's record
Outcome(result) ==
    [result |-> result, attempts |-> Len(tickNotify),
     notifyErr |-> \E i \in 1..Len(tickNotify) : tickNotify[i].err # "nil"]

\* where main() goes when c.Visit returns an error: main.go:190-193 at the
\* first check, main.go:202-205 in the loop
AfterVisitError(at) == IF at = "first_visit" THEN "exited" ELSE "loop_wait"

\* variant: the error path records the tick as out of stock
FetchFailAsOutOfStock ==
    /\ InVisit /\ call = "fetching"
    /\ call' = "none"
    /\ pc' = AfterVisitError(pc)
    /\ lastState' = TRUE
    /\ outcomes' = Append(outcomes, Outcome("fail"))
    /\ UNCHANGED << config, proxyFile, proxyURLs, rpIndex, firstCheck,
                    resultChan, elems, sendVal, url, now, tickerNext, tickerC,
                    fetches, tickNotify,
                    tickSeen, startupDoneAt >>

\* the request fails (transport error, proxy error, status >= 203): OnError
\* logs (main.go:175-179) and c.Visit returns the error
FetchFail ==
    /\ InVisit /\ call = "fetching"
    /\ call' = "none"
    /\ pc' = AfterVisitError(pc)
    /\ outcomes' = Append(outcomes, Outcome("fail"))
    /\ UNCHANGED << config, proxyFile, proxyURLs, rpIndex, lastState,
                    firstCheck, resultChan, elems, sendVal, url, now,
                    tickerNext, tickerC, fetches, tickNotify,
                    tickSeen, startupDoneAt >>

\* variant: the loop does not wait for the result
AfterVisitOkSkipLoopRecv(at) ==
    IF at = "first_visit" THEN "first_recv" ELSE "loop_wait"

\* where main() goes when c.Visit returns nil
AfterVisitOk(at) == IF at = "first_visit" THEN "first_recv" ELSE "loop_recv"

\* the request succeeds: the callback runs once per matching element, in
\* document order, and c.Visit returns nil after the last one
FetchOk ==
    /\ InVisit /\ call = "fetching"
    /\ \E page \in Pages :
          /\ elems' = page
          /\ IF page = << >>
             THEN call' = "none" /\ pc' = AfterVisitOk(pc)
             ELSE call' = "html" /\ pc' = pc
    /\ UNCHANGED << config, proxyFile, proxyURLs, rpIndex, lastState,
                    firstCheck, resultChan, sendVal, url, now, tickerNext,
                    tickerC, fetches, outcomes, tickNotify,
                    tickSeen, startupDoneAt >>

\* variant: a failed notification makes the callback report out of stock,
\* so that the transition is seen again at the next tick
OnHTMLRetryOnNotifyError ==
    /\ InVisit /\ call = "html"
    /\ LET availability == Head(elems)
           isOutOfStock == IsOutOfStock(availability)
       IN  IF ~isOutOfStock /\ ShouldNotify(lastState, firstCheck)
           THEN \E post \in PostResults :
                   /\ tickNotify' = Append(tickNotify, [post |-> post, err |-> sendDiscordNotification(post)])
                   /\ sendVal' = (sendDiscordNotification(post) # "nil")
           ELSE tickNotify' = tickNotify /\ sendVal' = isOutOfStock
    /\ tickSeen' = Append(tickSeen, IsOutOfStock(Head(elems)))
    /\ call' = "send"
    /\ UNCHANGED << pc, config, proxyFile, proxyURLs, rpIndex, lastState,
                    firstCheck, resultChan, elems, url, now, tickerNext,
                    tickerC, fetches, outcomes,
                    startupDoneAt >>

\* variant: the notification POST goes through the collector's transport
\* and takes a proxy from the switcher
OnHTMLNotifyViaSwitcher ==
    /\ InVisit /\ call = "html"
    /\ LET availability == Head(elems)
           isOutOfStock == IsOutOfStock(availability)
       IN  /\ sendVal' = isOutOfStock
           /\ IF ~isOutOfStock /\ ShouldNotify(lastState, firstCheck)
              THEN /\ \E post \in PostResults :
                        tickNotify' = Append(tickNotify, [post |-> post, err |-> sendDiscordNotification(post)])
                   /\ rpIndex' = rpIndex + 1
              ELSE tickNotify' = tickNotify /\ rpIndex' = rpIndex
    /\ tickSeen' = Append(tickSeen, IsOutOfStock(Head(elems)))
    /\ call' = "send"
    /\ UNCHANGED << pc, config, proxyFile, proxyURLs, lastState, firstCheck,
                    resultChan, elems, url, now, tickerNext, tickerC, fetches,
                    outcomes,
                    startupDoneAt >>

\* the OnHTML callback up to its channel send (main.go:152-169)
OnHTML ==
    /\ InVisit /\ call = "html"
    /\ LET availability == Head(elems)
           isOutOfStock == IsOutOfStock(availability)
       IN  /\ sendVal' = isOutOfStock
           /\ IF ~isOutOfStock /\ ShouldNotify(lastState, firstCheck)
              THEN \E post \in PostResults :
                      tickNotify' = Append(tickNotify, [post |-> post, err |-> sendDiscordNotification(post)])
              ELSE tickNotify' = tickNotify
    /\ tickSeen' = Append(tickSeen, IsOutOfStock(Head(elems)))
    /\ call' = "send"
    /\ UNCHANGED << pc, config, proxyFile, proxyURLs, rpIndex, lastState,
                    firstCheck, resultChan, elems, url, now, tickerNext,
                    tickerC, fetches, outcomes,
                    startupDoneAt >>

\* resultChan <- true / false (main.go:160, 170); blocks while the buffer is
\* full. The callback returns and the next element, if any, is handled.
ChanSend ==
    /\ InVisit /\ call = "send"
    /\ Len(resultChan) < ChanCap
    /\ resultChan' = Append(resultChan, sendVal)
    /\ elems' = Tail(elems)
    /\ IF Tail(elems) = << >>
       THEN call' = "none" /\ pc' = AfterVisitOk(pc)
       ELSE call' = "html" /\ pc' = pc
    /\ UNCHANGED << config, proxyFile, proxyURLs, rpIndex, lastState,
                    firstCheck, sendVal, url, now, tickerNext, tickerC,
                    fetches, outcomes, tickNotify,
                    tickSeen, startupDoneAt >>

ResultName(outOfStock) == IF outOfStock THEN "oos" ELSE "in"

\* what this tick's check classified: the value its callback produced
CheckResult ==
    IF tickSeen = << >> THEN "none" ELSE ResultName(tickSeen[Len(tickSeen)])

\* main.go:196-197
FirstRecv ==
    /\ pc = "first_recv"
    /\ resultChan # << >>
    /\ lastState' = Head(resultChan)
    /\ resultChan' = Tail(resultChan)
    /\ firstCheck' = FALSE
    /\ startupDoneAt' = now
    /\ outcomes' = Append(outcomes, Outcome(CheckResult))
    /\ pc' = "loop_wait"
    /\ UNCHANGED << config, proxyFile, proxyURLs, rpIndex, elems, call,
                    sendVal, url, now, tickerNext, tickerC, fetches,
                    tickNotify,
                    tickSeen >>

\* variant: the loop receives the result and does not store it
LoopRecvDiscard ==
    /\ pc = "loop_recv"
    /\ resultChan # << >>
    /\ resultChan' = Tail(resultChan)
    /\ outcomes' = Append(outcomes, Outcome(CheckResult))
    /\ pc' = "loop_wait"
    /\ UNCHANGED << config, proxyFile, proxyURLs, rpIndex, lastState,
                    firstCheck, elems, call, sendVal, url, now, tickerNext,
                    tickerC, fetches, tickNotify, tickSeen, startupDoneAt >>

\* main.go:208
LoopRecv ==
    /\ pc = "loop_recv"
    /\ resultChan # << >>
    /\ lastState' = Head(resultChan)
    /\ resultChan' = Tail(resultChan)
    /\ outcomes' = Append(outcomes, Outcome(CheckResult))
    /\ pc' = "loop_wait"
    /\ UNCHANGED << config, proxyFile, proxyURLs, rpIndex, firstCheck, elems,
                    call, sendVal, url, now, tickerNext, tickerC, fetches,
                    tickNotify,
                    tickSeen, startupDoneAt >>

\* for range ticker.C (main.go:200): take the buffered tick
LoopTick ==
    /\ pc = "loop_wait"
    /\ tickerC > 0
    /\ tickerC' = 0
    /\ pc' = "loop_visit"
    /\ UNCHANGED << config, proxyFile, proxyURLs, rpIndex, lastState,
                    firstCheck, resultChan, elems, call, sendVal, url, now,
                    tickerNext, fetches, outcomes, tickNotify,
                    tickSeen, startupDoneAt >>

TickerDue == tickerNext >= 0 /\ pc # "exited" /\ now >= tickerNext

\* the runtime timer of time.NewTicker (main.go:185): every Period it
\* puts a tick in ticker.C, and drops it when one is already buffered
TickerFire ==
    /\ TickerDue
    /\ tickerC' = 1
    /\ tickerNext' = tickerNext + Period
    /\ UNCHANGED << pc, config, proxyFile, proxyURLs, rpIndex, lastState,
                    firstCheck, resultChan, elems, call, sendVal, url, now,
                    fetches, outcomes, tickNotify,
                    tickSeen, startupDoneAt >>

\* main() is at a point where it waits: for the network, for the ticker, or
\* on the channel
Waiting ==
    \/ InVisit /\ call = "fetching"
    \/ InVisit /\ call = "send" /\ Len(resultChan) >= ChanCap
    \/ pc = "loop_wait" /\ tickerC = 0
    \/ pc \in {"first_recv", "loop_recv"} /\ resultChan = << >>

\* time passes while main() waits; a due tick is delivered first
AdvanceTime ==
    /\ Waiting
    /\ ~TickerDue
    /\ now < MaxTime
    /\ now' = now + Quantum
    /\ UNCHANGED << pc, config, proxyFile, proxyURLs, rpIndex, lastState,
                    firstCheck, resultChan, elems, call, sendVal, url,
                    tickerNext, tickerC, fetches, outcomes, tickNotify,
                    tickSeen, startupDoneAt >>

Next ==
    \/ LoadEnv
    \/ LoadConfig
    \/ ReadProxies
    \/ CreateSwitcher
    \/ Setup
    \/ VisitStart
    \/ FetchFail
    \/ FetchOk
    \/ OnHTML
    \/ ChanSend
    \/ FirstRecv
    \/ LoopRecv
    \/ LoopTick
    \/ TickerFire
    \/ AdvanceTime

Spec == Init /\ [][Next]_vars

\* what the scheduler and the clock guarantee: a step of main() that can run
\* does run, the timer fires when due, time passes, a request ends
Fairness ==
    /\ WF_vars(VisitStart)
    /\ WF_vars(FetchOk \/ FetchFail)
    /\ WF_vars(OnHTML)
    /\ WF_vars(ChanSend)
    /\ WF_vars(FirstRecv)
    /\ WF_vars(LoopRecv)
    /\ WF_vars(LoopTick)
    /\ WF_vars(TickerFire)
    /\ WF_vars(AdvanceTime)

FairSpec == Spec /\ Fairness

(***************************************************************************)
(* Pool construction on its own: every proxy file of at most MaxLines      *)
(* lines, up to the point where the pool has been read.                    *)
(***************************************************************************)
InitPool == InitCommon /\ proxyFile \in AllProxyFiles

NextPool == LoadEnv \/ LoadConfig \/ ReadProxies

SpecPool == InitPool /\ [][NextPool]_vars

(***************************************************************************)
(* Properties.                                                             *)
(***************************************************************************)
Results(log) == [i \in 1..Len(log) |-> log[i].result]
Attempts(log) == [i \in 1..Len(log) |-> log[i].attempts]

\* the result of the most recent completed (not failed) check before tick k
\* of the log, "none" when there is none
PrevCompleted(k) ==
    LET done == { j \in 1..(k - 1) : j <= Len(outcomes) /\ outcomes[j].result # "fail" }
    IN  IF done = {} THEN "none"
        ELSE outcomes[CHOOSE j \in done : \A i \in done : i <= j].result

\* a tick has started and has not finished
TickRunning == Len(fetches) > Len(outcomes)

\* C1: a tick makes a notification attempt iff its check completes with
\* in-stock and the most recent earlier completed check was out-of-stock
\* (so it is not the first completed check); it then makes exactly one.
\* Failed ticks make none and do not change what "most recent" refers to.
\* While a tick runs, an attempt already made obeys the same condition.
C1_NotifyIffTransition ==
    /\ \A k \in 1..Len(outcomes) :
          outcomes[k].attempts =
              IF outcomes[k].result = "in" /\ PrevCompleted(k) = "oos"
              THEN 1 ELSE 0
    /\ (TickRunning /\ tickNotify # << >>) =>
          PrevCompleted(Len(outcomes) + 1) = "oos"

\* outcomes [true, false, true, false]: attempts at index 1 and 3 only
C1_Witness ==
    /\ Results(outcomes) = << "oos", "in", "oos", "in" >>
    /\ Attempts(outcomes) = << 0, 1, 0, 1 >>

\* C2: the first completed check makes no notification attempt, whatever it
\* observes; it sets lastState to what it observed and clears firstCheck.
C2_FirstCheckNeverNotifies ==
    /\ firstCheck => tickNotify = << >>
    /\ (Len(outcomes) >= 1 /\ outcomes[1].result # "fail") =>
          /\ outcomes[1].attempts = 0
          /\ ~firstCheck
    /\ (Len(outcomes) = 1 /\ Len(fetches) = 1 /\ outcomes[1].result # "fail") =>
          /\ lastState = (outcomes[1].result = "oos")
          /\ pc \in {"loop_wait", "loop_visit"}

\* the first check completed with in-stock
C2_Witness ==
    /\ Len(outcomes) = 1 /\ Len(fetches) = 1
    /\ outcomes[1].result = "in"
    /\ ~firstCheck /\ ~lastState

\* C3: a failed fetch at any tick, tick zero included, does not end the
\* process.
C3_FailedFetchKeepsPolling ==
    \A k \in 1..Len(outcomes) : outcomes[k].result = "fail" => pc # "exited"

\* C4: a page without an og:availability element does not leave the poller
\* waiting for a result of that tick: main() is never at a channel receive
\* with nothing sent and nothing left to send.
C4_MissingMetadataSkipsTick ==
    ~(pc \in {"first_recv", "loop_recv"} /\ resultChan = << >>)

\* C5: after a tick whose fetch failed, lastState and firstCheck are what
\* they were when the tick started, and the tick made no notification
\* attempt.
C5_FailedFetchKeepsState ==
    (~TickRunning /\ Len(outcomes) >= 1 /\ outcomes[Len(outcomes)].result = "fail") =>
        /\ lastState = fetches[Len(fetches)].lastState
        /\ firstCheck = fetches[Len(fetches)].firstCheck
        /\ outcomes[Len(outcomes)].attempts = 0
        /\ tickNotify = << >>

\* a loop tick failed while the state was InStock
C5_Witness ==
    /\ ~TickRunning /\ Len(outcomes) >= 2
    /\ outcomes[Len(outcomes)].result = "fail"
    /\ ~lastState /\ ~firstCheck
    /\ pc = "loop_wait"

\* there is time left for the ticker to fire once more
TickerWillFire == tickerC > 0 \/ (tickerNext >= 0 /\ tickerNext <= MaxTime)

\* the last tick has finished and its notification attempt failed
NotifyFailedTick ==
    /\ ~TickRunning /\ Len(outcomes) >= 1
    /\ outcomes[Len(outcomes)].notifyErr

\* C6: a failed notification changes neither the state nor the polling: the
\* tick ends with the state InStock and main() back at the ticker, and the
\* next tick's fetch is started (a tick runs again) whenever the clock of
\* the model leaves the ticker time to fire.
C6_NotifyFailureHarmless ==
    /\ [](NotifyFailedTick =>
            /\ outcomes[Len(outcomes)].result = "in"
            /\ ~lastState /\ ~firstCheck
            /\ pc \in {"loop_wait", "loop_visit"})
    /\ []((\E i \in 1..Len(tickNotify) : tickNotify[i].err # "nil") => pc # "exited")
    /\ (NotifyFailedTick /\ TickerWillFire) ~> TickRunning

\* a notification failed and the next tick's fetch started
C6_Witness ==
    /\ Len(outcomes) >= 2 /\ Len(fetches) = Len(outcomes) + 1
    /\ outcomes[Len(outcomes)].notifyErr
    /\ call = "fetching"

\* C7: the n-th page fetch (n = 0 at startup) goes through pool[n mod N];
\* so N consecutive fetches use each pool position once; the switcher's
\* counter counts page fetches only, never notification POSTs.
C7_RoundRobin ==
    LET N == Len(proxyURLs)
    IN  /\ \A n \in 0..(Len(fetches) - 1) :
              fetches[n + 1].proxy = proxyURLs[(n % N) + 1]
        /\ rpIndex = Len(fetches)

\* four fetches over a pool of two, with a notification in between
C7_Witness ==
    /\ Len(proxyURLs) = 2 /\ proxyURLs[1] # proxyURLs[2]
    /\ Len(fetches) = 4
    /\ \E k \in 1..Len(outcomes) : outcomes[k].attempts > 0
    /\ fetches[3].proxy = proxyURLs[1] /\ fetches[4].proxy = proxyURLs[2]

\* C8: every request carries, as limit, the time at which it is issued.
C8_LimitFreshPerRequest ==
    \A n \in 1..Len(fetches) : fetches[n].limit = fetches[n].at

\* either configuration value is blank
AnyBlank == config.WebhookURL = "" \/ config.UserID = ""

\* the positions of the lines formatProxy accepts
ValidIdx(lines) == { i \in 1..Len(lines) : formatProxy(lines[i]) # << >> }

\* C9: when the file is read, the pool is the formatted valid lines, in
\* file order, one pool entry per valid line (no deduplication); when no
\* line is valid, the process gets an error and no pool.
C9_PoolConstruction ==
    (pc \notin {"loadenv", "config", "readproxies"} /\ ~AnyBlank
        /\ proxyFile.status = "ok") =>
        LET lines == proxyFile.lines
            valid == ValidIdx(lines)
        IN  /\ Len(proxyURLs) = Cardinality(valid)
            /\ \A i \in valid :
                  proxyURLs[Cardinality({ j \in valid : j <= i })] = formatProxy(lines[i])
            /\ (valid = {}) <=> (pc = "exited")
            /\ readProxiesFromFile(proxyFile).err =
                  IF valid = {} THEN "no valid proxies found in file" ELSE "nil"

\* a valid line, an invalid line, and the first line again: a pool of two
\* equal entries
C9_Witness ==
    /\ pc = "switcher"
    /\ proxyFile.lines = << Str_abcd, Str_abc, Str_abcd >>
    /\ proxyURLs = << formatProxy(Str_abcd), formatProxy(Str_abcd) >>

\* the process got through startup
StartupOk ==
    /\ ~AnyBlank
    /\ proxyFile.status = "ok"
    /\ ValidIdx(proxyFile.lines) # {}

\* C10: a page fetch is performed only after a successful startup; a blank
\* webhook URL or recipient, an unreadable proxy file or one without a valid
\* entry ends the process before the first fetch.
C10_NoFetchWithoutStartup ==
    /\ fetches # << >> => StartupOk
    /\ (pc \notin {"loadenv", "config"} /\ AnyBlank) =>
          pc = "exited" /\ fetches = << >>
    /\ (pc \notin {"loadenv", "config", "readproxies"}
            /\ (proxyFile.status # "ok" \/ ValidIdx(proxyFile.lines) = {})) =>
          pc = "exited" /\ fetches = << >>

\* the configuration is complete, the proxy file has no valid line
C10_Witness ==
    /\ pc = "exited" /\ fetches = << >>
    /\ ~AnyBlank
    /\ proxyFile.status = "ok" /\ ValidIdx(proxyFile.lines) = {}
    /\ Len(proxyFile.lines) > 0

\* the positions of the colons of a text
ColonPos(t) == { i \in 1..Len(t) : t[i] = ":" }

\* the k-th smallest element of a set of numbers
Kth(S, k) == CHOOSE x \in S : Cardinality({ y \in S : y <= x }) = k

\* the trimmed line has exactly four colon-separated fields
FourFields(line) == Cardinality(ColonPos(TrimSpace(line))) = 3

\* http://u:pw@h:p for the fields h, p, u, pw that the three colons of the
\* trimmed line delimit
Template(line) ==
    LET t == TrimSpace(line)
        c1 == Kth(ColonPos(t), 1)
        c2 == Kth(ColonPos(t), 2)
        c3 == Kth(ColonPos(t), 3)
        h == SubSeq(t, 1, c1 - 1)
        p == SubSeq(t, c1 + 1, c2 - 1)
        u == SubSeq(t, c2 + 1, c3 - 1)
        pw == SubSeq(t, c3 + 1, Len(t))
    IN  << "h", "t", "t", "p", ":", "/", "/" >> \o u \o << ":" >> \o pw
            \o << "@" >> \o h \o << ":" >> \o p

\* C11: a line with exactly four colon-separated fields after trimming is
\* formatted as http://u:pw@h:p from those fields; every other line, blank
\* lines included, gives the empty string. The pool holds only such
\* formatted lines.
C11_FormatProxy ==
    /\ \A i \in 1..Len(proxyFile.lines) :
          formatProxy(proxyFile.lines[i]) =
              IF FourFields(proxyFile.lines[i])
              THEN Template(proxyFile.lines[i]) ELSE << >>
    /\ \A k \in 1..Len(proxyURLs) :
          \E i \in 1..Len(proxyFile.lines) :
              FourFields(proxyFile.lines[i]) /\ proxyURLs[k] = Template(proxyFile.lines[i])

\* " e:b:c:d " was read next to a three-field and a five-field line
C11_Witness ==
    /\ pc = "switcher"
    /\ proxyFile.lines = << Str_abc, Str_padded, Str_abcde >>
    /\ proxyURLs = << << "h", "t", "t", "p", ":", "/", "/", "c", ":", "d",
                         "@", "e", ":", "b" >> >>

\* the trimmed line has four fields and one of them is empty
HasEmptyField(line) ==
    LET t == TrimSpace(line)
        cols == ColonPos(t)
    IN  /\ Cardinality(cols) = 3
        /\ \/ 1 \in cols
           \/ Len(t) \in cols
           \/ \E i \in cols : i + 1 \in cols

\* C14, as claimed: a four-field line with an empty field is rejected and
\* does not reach the pool.
C14_EmptyFieldRejected ==
    \A i \in 1..Len(proxyFile.lines) :
        HasEmptyField(proxyFile.lines[i]) =>
            /\ formatProxy(proxyFile.lines[i]) = << >>
            /\ \A k \in 1..Len(proxyURLs) : proxyURLs[k] # Template(proxyFile.lines[i])

\* C14, amended: a four-field line with an empty field is accepted like any
\* other four-field line: it is formatted with the empty value in place and
\* kept in the pool.
C14_EmptyFieldAccepted ==
    \A i \in 1..Len(proxyFile.lines) :
        HasEmptyField(proxyFile.lines[i]) =>
            /\ formatProxy(proxyFile.lines[i]) = Template(proxyFile.lines[i])
            /\ formatProxy(proxyFile.lines[i]) # << >>
            /\ (pc = "switcher" /\ proxyFile.status = "ok") =>
                  \E k \in 1..Len(proxyURLs) : proxyURLs[k] = Template(proxyFile.lines[i])

\* "a::c:d" and ":::" make a pool of two
C14_Witness ==
    /\ pc = "switcher"
    /\ proxyFile.lines = << Str_emptyField, Str_colons >>
    /\ proxyURLs = << << "h", "t", "t", "p", ":", "/", "/", "c", ":", "d", "@", "a", ":" >>,
                      << "h", "t", "t", "p", ":", "/", "/", ":", "@", ":" >> >>

\* the upper-case form of the characters of "out of stock"
UpperOf(c) ==
    CASE c = "o" -> "O" [] c = "u" -> "U" [] c = "t" -> "T" [] c = "f" -> "F"
      [] c = "s" -> "S" [] c = "c" -> "C" [] c = "k" -> "K" [] OTHER -> c

\* the value reads "out of stock" when case is ignored
ReadsOutOfStock(v) ==
    /\ Len(v) = 12
    /\ \A i \in 1..Len(v) :
          LET c == << "o", "u", "t", " ", "o", "f", " ", "s", "t", "o", "c", "k" >>[i]
          IN  v[i] = c \/ v[i] = UpperOf(c)

\* C12: the value the callback sends for an element is out-of-stock iff the
\* element's content reads "out of stock" when case is ignored; any other
\* content, the empty one included, gives in-stock.
C12_Classification ==
    (InVisit /\ call = "send") => (sendVal <=> ReadsOutOfStock(Head(elems)))

\* "Out Of Stock" was classified as out of stock
C12_Witness ==
    /\ InVisit /\ call = "send"
    /\ Head(elems) = << "O", "u", "t", " ", "O", "f", " ", "S", "t", "o", "c", "k" >>
    /\ sendVal

\* C13: a notification attempt returns nil iff the POST completed with
\* status 204; every other status and a transport error come back as an
\* error value, and the process goes on.
C13_NotifySuccessIff204 ==
    /\ \A i \in 1..Len(tickNotify) :
          (tickNotify[i].err = "nil") <=>
              (~tickNotify[i].post.transportErr /\ tickNotify[i].post.status = 204)
    /\ tickNotify # << >> => pc # "exited"

\* the webhook answered 200 and the attempt was reported as failed
C13_Witness ==
    /\ InVisit /\ call = "send"
    /\ Len(tickNotify) = 1
    /\ ~tickNotify[1].post.transportErr /\ tickNotify[1].post.status = 200
    /\ tickNotify[1].err # "nil"

\* some check has completed
AnyCompleted == \E k \in 1..Len(outcomes) : outcomes[k].result # "fail"

\* C15: once a check has completed, lastState is the outcome of the most
\* recent completed check; firstCheck is true exactly while no check has
\* completed, and once false it stays false.
C15_StateTracksLastCheck ==
    /\ [](AnyCompleted => (lastState <=> PrevCompleted(Len(outcomes) + 1) = "oos"))
    /\ [](firstCheck <=> ~AnyCompleted)
    /\ [][~firstCheck => ~firstCheck']_vars

\* out of stock was seen again after in stock
C15_Witness ==
    /\ Len(outcomes) = 3
    /\ Results(outcomes) = << "oos", "in", "oos" >>
    /\ lastState /\ ~firstCheck

\* C16: at most one tick is unfinished; a fetch is in flight only with the
\* result channel empty, so the previous result has been consumed; the value
\* main() is about to receive is the one this tick's check produced.
C16_OneFetchFreshResult ==
    /\ Len(fetches) - Len(outcomes) \in {0, 1}
    /\ (InVisit /\ call = "fetching") => resultChan = << >>
    /\ (pc \in {"first_recv", "loop_recv"} /\ resultChan # << >>) =>
          /\ Len(tickSeen) = 1
          /\ resultChan = << tickSeen[1] >>

\* a fresh out-of-stock result waits while the stored state is InStock
C16_Witness ==
    /\ pc = "loop_recv"
    /\ resultChan = << TRUE >>
    /\ ~lastState
    /\ Len(fetches) >= 2

\* the ticker is created in the step that builds url (main.go:181-186), so
\* url is also the time of the ticker's creation
TickerCreatedAt == url

\* C17, as claimed: the first timer-driven fetch starts at least a period
\* after the startup check's result was received.
C17_PeriodCountsFromStartupResult ==
    Len(fetches) >= 2 => fetches[2].at >= startupDoneAt + Period

\* C17, amended: the period counts from the ticker's creation, before the
\* startup fetch: the first timer-driven fetch starts at least a period
\* after that, and not before the startup result was received.
C17_PeriodCountsFromTickerCreation ==
    Len(fetches) >= 2 =>
        /\ fetches[2].at >= TickerCreatedAt + Period
        /\ startupDoneAt >= 0
        /\ fetches[2].at >= startupDoneAt

\* the startup fetch took 15 s and the next fetch started 15 s after its
\* result was received
C17_Witness ==
    /\ Len(fetches) = 2
    /\ startupDoneAt = 15
    /\ fetches[2].at = 30

\* C18: whenever the callback is at its send, the result channel has room.
C18_SendNeverBlocks ==
    (InVisit /\ call = "send") => Len(resultChan) < ChanCap

\* C19: a tick makes at most one notification attempt.
C19_AtMostOneNotifyPerTick == Len(tickNotify) <= 1

====
